---- MODULE Spec2Model ----
(***************************************************************************)
(* Model of pyannote.audio.core.io.Audio: validation of audio references,  *)
(* whole-file loading (Audio.__call__), segment cropping (Audio.crop) and  *)
(* downmix_and_resample.                                                   *)
(*                                                                         *)
(* Times are exact rationals.  A segment boundary is an integer number of  *)
(* ticks of 1/TicksPerSecond seconds; inside the sliding-window arithmetic *)
(* every time is an integer multiple of 1/Scale(rate) seconds.             *)
(***************************************************************************)
EXTENDS Integers, Sequences, FiniteSets

\* Python's None, for optional integers (sample_rate, channel, fixed).
None == -1

\* Resolution of segment boundaries: ticks per second.
TicksPerSecond == 4
\* Longest waveform, in frames.
MaxFrames == 3
\* Latest segment boundary, in ticks.
MaxTime == 13

\* Native and target sample rates, in Hz.
Rates == {1, 2}
\* Channel counts of the 2-D waveforms.
ChannelCounts == {1, 2}
\* Values of the `fixed` argument, in ticks.
FixedDurations == {2, 4, 6}
\* Alignment modes.
Modes == {"strict", "loose", "center"}

Min(a, b) == IF a < b THEN a ELSE b
Max(a, b) == IF a > b THEN a ELSE b

(***************************************************************************)
(* numpy rounding of the rational n/d (d > 0).                             *)
(***************************************************************************)
\* np.floor
Floor(n, d) == n \div d
\* np.ceil
Ceil(n, d) == -((-n) \div d)
\* np.rint: round to nearest, ties to even
Rint(n, d) ==
    LET q == Floor(2 * n + d, 2 * d)
    IN  IF (2 * n + d) % (2 * d) = 0 /\ q % 2 = 1 THEN q - 1 ELSE q

(***************************************************************************)
(* Python slicing s[a:b] of a sequence, negative and out-of-range indices  *)
(* included.                                                               *)
(***************************************************************************)
SliceIndex(i, n) == IF i < 0 THEN Max(i + n, 0) ELSE Min(i, n)
PySlice(s, a, b) ==
    LET lo == SliceIndex(a, Len(s))
        hi == SliceIndex(b, Len(s))
    IN  IF lo >= hi THEN <<>> ELSE SubSeq(s, lo + 1, hi)

(***************************************************************************)
(* numpy arrays.  shape is the array's shape; data holds the frames of a   *)
(* (time, channel) array, each frame a sequence of samples, each sample a  *)
(* rational <<numerator, denominator>>.  resampled is <<>> for samples as  *)
(* stored, and <<from, to>> when the array stands for the output of        *)
(* librosa.core.resample applied to data: its shape is the output's.       *)
(***************************************************************************)
NoArray == [shape |-> <<>>, data |-> <<>>, resampled |-> <<>>]

\* The (t, c) waveform whose sample at frame i, channel j is 10 * i + j.
Wave(t, c) ==
    [shape     |-> <<t, c>>,
     data      |-> [i \in 1..t |-> [j \in 1..c |-> <<10 * i + j, 1>>]],
     resampled |-> <<>>]

\* A 1-D array of n samples: not a (time, channel) array.
Flat(n) == [shape |-> <<n>>, data |-> <<>>, resampled |-> <<>>]

\* waveform[a:b]
Rows(w, a, b) ==
    LET d == PySlice(w.data, a, b)
    IN  [shape |-> <<Len(d), w.shape[2]>>, data |-> d, resampled |-> w.resampled]

\* waveform[:, a:b]
Cols(w, a, b) ==
    LET n == Len(PySlice([k \in 1..w.shape[2] |-> k], a, b))
    IN  [shape     |-> <<w.shape[1], n>>,
         data      |-> [i \in 1..Len(w.data) |-> PySlice(w.data[i], a, b)],
         resampled |-> w.resampled]

RECURSIVE SumNum(_)
SumNum(frame) ==
    IF frame = <<>> THEN 0 ELSE Head(frame)[1] + SumNum(Tail(frame))

\* np.mean(waveform, axis=1, keepdims=True)
MeanChannels(w) ==
    [shape     |-> <<w.shape[1], 1>>,
     data      |-> [i \in 1..Len(w.data) |->
                        << <<SumNum(w.data[i]), Len(w.data[i])>> >>],
     resampled |-> w.resampled]

(***************************************************************************)
(* Audio files on disk and audio references.                               *)
(***************************************************************************)
Arrays2D == {Wave(t, c) : t \in 1..MaxFrames, c \in ChannelCounts}
\* what a decoder can hold: at least as many frames as channels here
FileArrays == {w \in Arrays2D : w.shape[1] >= w.shape[2]}

\* A path names a file; the file is described by what the decoder finds.
NoFile == [exists |-> FALSE, samplerate |-> None, array |-> NoArray]
MissingFile == [exists |-> FALSE, samplerate |-> None, array |-> Flat(0)]
Files ==
    {[exists |-> TRUE, samplerate |-> r, array |-> w] : r \in Rates, w \in FileArrays}
    \cup {MissingFile}

ChannelsOf(w) == IF Len(w.shape) = 2 THEN 1..w.shape[2] ELSE {}

\* str / Path
PathFiles ==
    {[isdict |-> FALSE, keys |-> {}, audio |-> f, waveform |-> NoArray,
      sample_rate |-> None, channel |-> None] : f \in Files}
\* {"audio": path} with an optional 1-indexed "channel"
AudioDicts ==
    UNION {{[isdict |-> TRUE, keys |-> {"audio"}, audio |-> f, waveform |-> NoArray,
             sample_rate |-> None, channel |-> c] :
                c \in {None} \cup ChannelsOf(f.array)} : f \in Files}
\* {"waveform": array, "sample_rate": rate} with an optional "channel"
WaveformDicts ==
    UNION {{[isdict |-> TRUE, keys |-> {"waveform"}, audio |-> NoFile, waveform |-> w,
             sample_rate |-> r, channel |-> c] :
                r \in {None} \cup Rates, c \in {None} \cup ChannelsOf(w)} :
           w \in Arrays2D \cup {Flat(MaxFrames)}}
\* dicts holding both keys, and dicts holding neither
OtherDicts ==
    {[isdict |-> TRUE, keys |-> {"audio", "waveform"}, audio |-> MissingFile,
      waveform |-> w, sample_rate |-> r, channel |-> None] :
        w \in Arrays2D, r \in {None} \cup Rates}
    \cup {[isdict |-> TRUE, keys |-> {}, audio |-> NoFile, waveform |-> NoArray,
           sample_rate |-> None, channel |-> None]}

AudioFiles == PathFiles \cup AudioDicts \cup WaveformDicts \cup OtherDicts

\* Segment(start, end), boundaries in ticks, start <= end
SegmentTimes == -1..MaxTime
Segments == {seg \in SegmentTimes \X SegmentTimes : seg[1] <= seg[2]}

(***************************************************************************)
(* Audio.is_valid: "" when the reference is accepted, else the ValueError  *)
(* raised.                                                                 *)
(***************************************************************************)
is_valid_no_shape_check(file) ==
    IF file.isdict
    THEN IF "waveform" \in file.keys
         THEN IF Len(file.waveform.shape) # 2
              THEN "ValueError: 'waveform' must be provided as a (time, channel) numpy array."
              ELSE IF file.sample_rate = None
                   THEN "ValueError: 'waveform' must be provided with their 'sample_rate'."
                   ELSE ""
         ELSE IF "audio" \in file.keys
              THEN ""
              ELSE "ValueError: either 'audio' or 'waveform' key must be provided."
    ELSE ""

is_valid(file) ==
    IF file.isdict
    THEN IF "waveform" \in file.keys
         THEN IF Len(file.waveform.shape) # 2
                 \/ file.waveform.shape[1] < file.waveform.shape[2]
              THEN "ValueError: 'waveform' must be provided as a (time, channel) numpy array."
              ELSE IF file.sample_rate = None
                   THEN "ValueError: 'waveform' must be provided with their 'sample_rate'."
                   ELSE ""
         ELSE IF "audio" \in file.keys
              THEN ""
              ELSE "ValueError: either 'audio' or 'waveform' key must be provided."
    ELSE ""

(***************************************************************************)
(* What a call hands back: a returned (waveform, sample_rate) or a raised  *)
(* exception, with the I/O it performed and crop's locals                  *)
(* <<start, stop, frames>> (<<>> while they are unset).                    *)
(***************************************************************************)
Returned(w, rate, events, locals) ==
    [status |-> "ok", error |-> "", waveform |-> w, sample_rate |-> rate,
     io |-> events, locals |-> locals]
Raised(e, events, locals) ==
    [status |-> "error", error |-> e, waveform |-> NoArray, sample_rate |-> None,
     io |-> events, locals |-> locals]

(***************************************************************************)
(* librosa.core.resample along the time axis: resampy refuses a signal     *)
(* whose output would hold no sample; the output holds                     *)
(* ceil(n * target / orig) samples.                                        *)
(***************************************************************************)
ResampleFails(w, orig_sr, target_sr) ==
    Floor(w.shape[1] * target_sr, orig_sr) < 1
Resample(w, orig_sr, target_sr) ==
    [shape     |-> <<Ceil(w.shape[1] * target_sr, orig_sr), w.shape[2]>>,
     data      |-> w.data,
     resampled |-> <<orig_sr, target_sr>>]

(***************************************************************************)
(* Audio.downmix_and_resample                                              *)
(***************************************************************************)
Downmix(self, w) ==
    IF self.mono /\ w.shape[2] > 1 THEN MeanChannels(w) ELSE w

downmix_and_resample_keep_rate(self, w, sample_rate, events, locals) ==
    LET mixed == Downmix(self, w)
    IN  IF self.sample_rate # None /\ self.sample_rate # sample_rate
        THEN IF ResampleFails(mixed, sample_rate, self.sample_rate)
             THEN Raised("ValueError: input signal is too small to resample",
                         events, locals)
             ELSE Returned(Resample(mixed, sample_rate, self.sample_rate),
                           sample_rate, events, locals)
        ELSE Returned(mixed, sample_rate, events, locals)

downmix_and_resample(self, w, sample_rate, events, locals) ==
    LET mixed == Downmix(self, w)
    IN  IF self.sample_rate # None /\ self.sample_rate # sample_rate
        THEN IF ResampleFails(mixed, sample_rate, self.sample_rate)
             THEN Raised("ValueError: input signal is too small to resample",
                         events, locals)
             ELSE Returned(Resample(mixed, sample_rate, self.sample_rate),
                           self.sample_rate, events, locals)
        ELSE Returned(mixed, sample_rate, events, locals)

\* waveform[:, channel - 1 : channel]
SelectChannelZeroIndexed(w, channel) ==
    IF channel # None THEN Cols(w, channel, channel + 1) ELSE w

SelectChannel(w, channel) ==
    IF channel # None THEN Cols(w, channel - 1, channel) ELSE w

(***************************************************************************)
(* Audio.__call__                                                          *)
(***************************************************************************)
\* the `channel` local: file.get("channel", None) for a dict, None otherwise
ChannelOf(file) == IF file.isdict THEN file.channel ELSE None

LoadOutcome(self, file) ==
    IF is_valid(file) # ""
    THEN Raised(is_valid(file), <<>>, <<>>)
    ELSE IF file.isdict /\ "waveform" \in file.keys
    THEN downmix_and_resample(self, SelectChannel(file.waveform, ChannelOf(file)),
                              file.sample_rate, <<>>, <<>>)
    ELSE IF file.isdict /\ "audio" \notin file.keys
    THEN Raised("UnboundLocalError: audio", <<>>, <<>>)
    ELSE IF ~file.audio.exists
    THEN Raised("RuntimeError: error opening file", <<"open_failed">>, <<>>)
    ELSE downmix_and_resample(self, SelectChannel(file.audio.array, ChannelOf(file)),
                              file.audio.samplerate, <<"open", "read", "close">>, <<>>)

(***************************************************************************)
(* The mapping of a segment onto sample indices: the SlidingWindow built   *)
(* by crop and its crop(segment, mode, fixed, return_ranges=True).  Inside *)
(* it a time is an integer count of 1/Scale(sample_rate) seconds.          *)
(***************************************************************************)
Scale(sample_rate) == 2 * TicksPerSecond * sample_rate
\* a time given in ticks, in units of 1/Scale(sample_rate) seconds
Units(ticks, sample_rate) == ticks * 2 * sample_rate

\* SlidingWindow(start=0, duration=1/sample_rate, step=1/sample_rate)
SamplesWindowNoOffset(sample_rate) ==
    [start    |-> 0,
     duration |-> Scale(sample_rate) \div sample_rate,
     step     |-> Scale(sample_rate) \div sample_rate]

\* SlidingWindow(start=-0.5/sample_rate, duration=1/sample_rate, step=1/sample_rate)
SamplesWindow(sample_rate) ==
    [start    |-> -(Scale(sample_rate) \div (2 * sample_rate)),
     duration |-> Scale(sample_rate) \div sample_rate,
     step     |-> Scale(sample_rate) \div sample_rate]

\* index of the window whose center is the closest to time t
closest_frame(window, t) ==
    Rint(2 * (t - window.start) - window.duration, 2 * window.step)

\* number of windows for a duration, "center" mode
samples_center(window, from_duration) == Rint(from_duration, window.step)

\* window.crop(focus, mode=mode, fixed=fixed, return_ranges=True): <<start, stop>>.
\* "strict": the windows fully included in focus; "loose": the windows that
\* intersect it; "center": from the window centered closest to focus' start to
\* the one centered closest to its end, or the fixed number of windows.
SlidingWindowCrop(window, focus, mode, fixed) ==
    IF mode = "loose"
    THEN <<Ceil(focus[1] - window.duration - window.start, window.step),
           Floor(focus[2] - window.start, window.step) + 1>>
    ELSE IF mode = "strict"
    THEN <<Ceil(focus[1] - window.start, window.step),
           Floor(focus[2] - window.duration - window.start, window.step) + 1>>
    ELSE IF fixed = None
    THEN <<closest_frame(window, focus[1]), closest_frame(window, focus[2]) + 1>>
    ELSE <<closest_frame(window, focus[1]),
           closest_frame(window, focus[1]) + samples_center(window, fixed)>>

\* samples.crop(segment, mode=mode, return_ranges=True): fixed is not passed on
CropRangeFixedDropped(segment, mode, fixed, sample_rate) ==
    SlidingWindowCrop(SamplesWindow(sample_rate),
                      <<Units(segment[1], sample_rate), Units(segment[2], sample_rate)>>,
                      mode, None)

\* ((start, stop),) = samples.crop(segment, mode=mode, fixed=fixed, return_ranges=True)
CropRange(segment, mode, fixed, sample_rate) ==
    SlidingWindowCrop(SamplesWindow(sample_rate),
                      <<Units(segment[1], sample_rate), Units(segment[2], sample_rate)>>,
                      mode,
                      IF fixed = None THEN None ELSE Units(fixed, sample_rate))

\* if stop > frames
OutOfBoundsStopOnly(start, stop, frames) == stop > frames

\* if start < 0 or stop > frames
OutOfBounds(start, stop, frames) == start < 0 \/ stop > frames

(***************************************************************************)
(* SoundFile.seek and SoundFile.read.  fault is what the decoder does to   *)
(* this call: "none", or a RuntimeError raised by "seek" or by "read".     *)
(***************************************************************************)
Faults == {"none", "seek", "read"}

\* seek(start) raises on a decoder fault and on a position outside the file
SeekFails(fault, start, frames) == fault = "seek" \/ start < 0 \/ start > frames

\* read(n, always_2d=True) at position start: a negative or too large n reads
\* what is left of the file
ReadFrames(array, start, n) ==
    LET remaining == array.shape[1] - start
        count == IF n < 0 \/ n > remaining THEN remaining ELSE n
    IN  Rows(array, start, start + count)

\* the seek failure path without the `with` block: the handle stays open
FallbackIONoClose(events, loaded) == events \o <<"warn">> \o loaded

\* the I/O of the seek failure path: the warning, the whole-file load, and
\* the `with` block closing the handle on the way out
FallbackIO(events, loaded) == events \o <<"warn">> \o loaded \o <<"close">>

(***************************************************************************)
(* Audio.crop                                                              *)
(***************************************************************************)
\* return self(audio).crop(segment, mode=mode, fixed=fixed): self(audio) is
\* the (waveform, sample_rate) tuple, which has no crop
CropFallback(self, file, events, locals) ==
    LET path == [isdict |-> FALSE, keys |-> {}, audio |-> file.audio,
                 waveform |-> NoArray, sample_rate |-> None, channel |-> None]
        loaded == LoadOutcome(self, path)
    IN  IF loaded.status = "error"
        THEN Raised(loaded.error, FallbackIO(events, loaded.io), locals)
        ELSE Raised("AttributeError: 'tuple' object has no attribute 'crop'",
                    FallbackIO(events, loaded.io), locals)

\* from the sample range on: bounds check, extraction, channel, downmix
CropSamples(self, file, waveform, audio, sample_rate, frames, events, rng, fault) ==
    LET start == rng[1]
        stop == rng[2]
        locals == <<start, stop, frames>>
    IN  IF OutOfBounds(start, stop, frames)
        THEN Raised("ValueError: requested chunk lies outside of file bounds",
                    events, locals)
        ELSE IF waveform # NoArray
        THEN downmix_and_resample(
                 self, SelectChannel(Rows(waveform, start, stop), ChannelOf(file)),
                 sample_rate, events, locals)
        ELSE IF SeekFails(fault, start, frames)
        THEN CropFallback(self, file, events \o <<"open", "seek_failed">>, locals)
        ELSE IF fault = "read"
        THEN CropFallback(self, file, events \o <<"open", "seek", "read_failed">>,
                          locals)
        ELSE downmix_and_resample(
                 self,
                 SelectChannel(ReadFrames(audio.array, start, stop - start),
                               ChannelOf(file)),
                 sample_rate, events \o <<"open", "seek", "read", "close">>, locals)

CropOutcome(self, file, segment, mode, fixed, fault) ==
    IF is_valid(file) # ""
    THEN Raised(is_valid(file), <<>>, <<>>)
    ELSE IF file.isdict /\ "waveform" \in file.keys
    THEN CropSamples(self, file, file.waveform, NoFile, file.sample_rate,
                     file.waveform.shape[1], <<>>,
                     CropRange(segment, mode, fixed, file.sample_rate), fault)
    ELSE IF file.isdict /\ "audio" \notin file.keys
    THEN Raised("UnboundLocalError: audio", <<>>, <<>>)
    ELSE IF ~file.audio.exists
    THEN Raised("RuntimeError: error opening file", <<"open_failed">>, <<>>)
    ELSE CropSamples(self, file, NoArray, file.audio, file.audio.samplerate,
                     file.audio.array.shape[1], <<"open", "close">>,
                     CropRange(segment, mode, fixed, file.audio.samplerate), fault)

VARIABLES self, call, ret

vars == <<self, call, ret>>

NoCall == [op |-> "none", file |-> CHOOSE f \in OtherDicts : f.keys = {},
           segment |-> <<0, 0>>, mode |-> "", fixed |-> None]
NoRet == [status |-> "none", error |-> "", waveform |-> NoArray, sample_rate |-> None,
          io |-> <<>>, locals |-> <<>>]

\* no call is in progress
Idle == call.op = "none"

\* Audio.__init__
Init ==
    /\ self \in [sample_rate : {None} \cup Rates, mono : BOOLEAN]
    /\ call = NoCall
    /\ ret = NoRet

Load(file) ==
    /\ Idle
    /\ call' = [op |-> "load", file |-> file, segment |-> <<0, 0>>, mode |-> "",
                fixed |-> None]
    /\ ret' = LoadOutcome(self, file)
    /\ UNCHANGED self

\* fixed is given in "center" mode only
CropArguments ==
    {<<mode, fixed>> \in Modes \X ({None} \cup FixedDurations) :
        fixed = None \/ mode = "center"}

Crop(file, segment, mode, fixed, fault) ==
    /\ Idle
    /\ call' = [op |-> "crop", file |-> file, segment |-> segment, mode |-> mode,
                fixed |-> fixed]
    /\ ret' = CropOutcome(self, file, segment, mode, fixed, fault)
    /\ UNCHANGED self

\* the caller takes the result; the accessor retains nothing of the call
Return ==
    /\ call.op # "none"
    /\ call' = NoCall
    /\ ret' = NoRet
    /\ UNCHANGED self

Next ==
    \/ Idle /\ \E file \in AudioFiles : Load(file)
    \/ Idle /\ \E file \in AudioFiles, segment \in Segments, args \in CropArguments,
                  fault \in Faults :
                    Crop(file, segment, args[1], args[2], fault)
    \/ Return

Spec == Init /\ [][Next]_vars
(***************************************************************************)
(* Vocabulary of the properties.                                           *)
(***************************************************************************)
Called == call.op \in {"load", "crop"}
Cropped == call.op = "crop" /\ ret.locals # <<>>

\* the three kinds of invalid reference
MissingAudioKey(file) ==
    file.isdict /\ "audio" \notin file.keys /\ "waveform" \notin file.keys
MalformedWaveform(file) ==
    /\ file.isdict /\ "waveform" \in file.keys
    /\ \/ Len(file.waveform.shape) # 2
       \/ file.waveform.shape[1] < file.waveform.shape[2]
MissingSampleRate(file) ==
    /\ file.isdict /\ "waveform" \in file.keys
    /\ ~MalformedWaveform(file)
    /\ file.sample_rate = None

InMemory(file) == file.isdict /\ "waveform" \in file.keys
ValidReference(file) ==
    /\ ~MissingAudioKey(file) /\ ~MalformedWaveform(file) /\ ~MissingSampleRate(file)
    /\ InMemory(file) \/ file.audio.exists

\* the samples and the rate a valid reference stands for
SourceArray(file) == IF InMemory(file) THEN file.waveform ELSE file.audio.array
SourceRate(file) == IF InMemory(file) THEN file.sample_rate ELSE file.audio.samplerate

Count(events, e) == Cardinality({i \in 1..Len(events) : events[i] = e})

\* sample k's window, 1/rate wide and centered on k/rate, lies inside segment
WindowInside(k, segment, rate) ==
    /\ (2 * k - 1) * TicksPerSecond >= 2 * segment[1] * rate
    /\ (2 * k + 1) * TicksPerSecond <= 2 * segment[2] * rate

\* C1: whenever the sample range computed by crop has start < 0 or
\* stop > frames, crop raises the out-of-bounds error, returns no waveform
\* and has neither sought nor read the backing file.
C1_OutOfBoundsRaisesBeforeReading ==
    (Cropped /\ (ret.locals[1] < 0 \/ ret.locals[2] > ret.locals[3]))
    => /\ ret.status = "error"
       /\ ret.error = "ValueError: requested chunk lies outside of file bounds"
       /\ ret.waveform = NoArray
       /\ \A i \in 1..Len(ret.io) :
            ret.io[i] \notin {"seek", "read", "seek_failed", "read_failed"}

\* a file-backed crop whose range starts before the file: header read, then raised
C1_Witness ==
    /\ Cropped /\ ~InMemory(call.file)
    /\ ret.locals[1] < 0 /\ ret.locals[2] <= ret.locals[3]
    /\ ret.status = "error" /\ ret.io = <<"open", "close">>

\* C2: a file-backed, in-bounds crop whose seek-and-read raised (a warning
\* was emitted, the whole file loads) ends by returning a waveform.
C2_FallbackReturnsCrop ==
    (/\ call.op = "crop"
     /\ Count(ret.io, "warn") > 0
     /\ LoadOutcome(self, [call.file EXCEPT !.isdict = FALSE, !.keys = {},
                                            !.channel = None]).status = "ok")
    => ret.status = "ok"

\* C3: load and crop on an invalid reference raise the validation error of
\* its kind and perform no I/O at all.
C3_InvalidReferenceRaisesBeforeIO ==
    Called =>
      /\ MissingAudioKey(call.file) =>
           /\ ret.status = "error" /\ ret.io = <<>>
           /\ ret.error = "ValueError: either 'audio' or 'waveform' key must be provided."
      /\ MalformedWaveform(call.file) =>
           /\ ret.status = "error" /\ ret.io = <<>>
           /\ ret.error =
                "ValueError: 'waveform' must be provided as a (time, channel) numpy array."
      /\ MissingSampleRate(call.file) =>
           /\ ret.status = "error" /\ ret.io = <<>>
           /\ ret.error = "ValueError: 'waveform' must be provided with their 'sample_rate'."

\* crop of a waveform with fewer frames than channels, beside an "audio" key
C3_Witness ==
    /\ call.op = "crop" /\ "audio" \in call.file.keys
    /\ Len(call.file.waveform.shape) = 2 /\ MalformedWaveform(call.file)
    /\ ret.status = "error" /\ ret.io = <<>>

\* C4: crop of the whole-file segment [0, frames/rate) in "center" mode, on a
\* valid reference that load accepts, returns what load returns.
C4_WholeFileCropEqualsLoad ==
    (/\ call.op = "crop" /\ ValidReference(call.file)
     /\ call.mode = "center" /\ call.fixed = None
     /\ call.segment[1] = 0
     /\ call.segment[2] * SourceRate(call.file)
          = SourceArray(call.file).shape[1] * TicksPerSecond
     /\ LoadOutcome(self, call.file).status = "ok")
    => /\ ret.status = "ok"
       /\ ret.waveform = LoadOutcome(self, call.file).waveform
       /\ ret.sample_rate = LoadOutcome(self, call.file).sample_rate

\* C5: for a valid (waveform, rate) pair, every sample of the range selected
\* in "strict" mode has its window fully inside the segment and belongs to
\* the "loose" range of the same segment; the range selected in "loose" mode
\* holds every sample whose window is fully inside the segment.
C5_StrictInsideLooseSuperset ==
    (Cropped /\ InMemory(call.file) /\ call.fixed = None)
    => LET rate == call.file.sample_rate
           loose == CropRange(call.segment, "loose", None, rate)
       IN  /\ call.mode = "strict" =>
                \A k \in ret.locals[1]..(ret.locals[2] - 1) :
                    /\ WindowInside(k, call.segment, rate)
                    /\ loose[1] <= k /\ k < loose[2]
           /\ call.mode = "loose" =>
                \A k \in -2..(2 * MaxTime) :
                    WindowInside(k, call.segment, rate)
                    => ret.locals[1] <= k /\ k < ret.locals[2]

\* a "strict" crop that returned at least one sample
C5_Witness ==
    /\ Cropped /\ InMemory(call.file) /\ call.mode = "strict"
    /\ ret.status = "ok" /\ ret.locals[2] > ret.locals[1]

\* C6: in "center" mode with a fixed duration, the number of samples selected
\* for an in-bounds segment, whatever its start and end, is the number
\* selected at that duration and rate for the empty segment at 0 and for the
\* longest segment; it is fixed * rate when that is a whole number, and it is
\* the number of frames extracted.
C6_FixedCountIndependentOfSegment ==
    (/\ Cropped /\ ValidReference(call.file)
     /\ call.mode = "center" /\ call.fixed # None
     /\ ret.locals[1] >= 0 /\ ret.locals[2] <= ret.locals[3])
    => LET rate == SourceRate(call.file)
           n == ret.locals[2] - ret.locals[1]
       IN  /\ \A seg \in {<<0, 0>>, <<-1, MaxTime>>} :
                LET r == CropRange(seg, "center", call.fixed, rate)
                IN  r[2] - r[1] = n
           /\ (call.fixed * rate) % TicksPerSecond = 0
                => n * TicksPerSecond = call.fixed * rate
           /\ (ret.status = "ok" /\ ret.waveform.resampled = <<>>)
                => ret.waveform.shape[1] = n

\* a fixed-duration crop that returned two frames or more
C6_Witness ==
    /\ Cropped /\ call.mode = "center" /\ call.fixed # None
    /\ ret.status = "ok" /\ ret.locals[2] - ret.locals[1] >= 2
    /\ call.segment[1] # call.segment[2]

\* C7: in "center" mode without fixed, a crop that returns for a segment of
\* d > 0 seconds whose start and end fall on sample centers has selected
\* exactly d * rate samples.
C7_CenterCountIsDurationTimesRate ==
    (/\ Cropped /\ ValidReference(call.file) /\ ret.status = "ok"
     /\ call.mode = "center" /\ call.fixed = None
     /\ call.segment[1] < call.segment[2]
     /\ (call.segment[1] * SourceRate(call.file)) % TicksPerSecond = 0
     /\ (call.segment[2] * SourceRate(call.file)) % TicksPerSecond = 0)
    => (ret.locals[2] - ret.locals[1]) * TicksPerSecond
          = (call.segment[2] - call.segment[1]) * SourceRate(call.file)

C10_OpensAtMostOnce ==
    (Called /\ ret.status = "ok")
    => /\ Count(ret.io, "open") <= 1
       /\ Count(ret.io, "open") = Count(ret.io, "close")

\* C10, amended: load opens the backing file at most once; crop opens it at
\* most twice (header, then seek-and-read) and a third time only on the
\* seek-failure path; a call seeks at most once; every handle opened is
\* closed when the call returns or raises.
C10_OpensBoundedAndClosed ==
    Called =>
      /\ call.op = "load" => Count(ret.io, "open") <= 1
      /\ call.op = "crop" =>
           Count(ret.io, "open") <= IF Count(ret.io, "warn") > 0 THEN 3 ELSE 2
      /\ Count(ret.io, "seek") + Count(ret.io, "seek_failed") <= 1
      /\ Count(ret.io, "open") = Count(ret.io, "close")

\* a crop that went down the seek-failure path and raised
C10_Witness ==
    /\ call.op = "crop" /\ Count(ret.io, "warn") = 1
    /\ Count(ret.io, "open") = 3 /\ ret.status = "error"
====
